---------------------------- MODULE Spec2Model ----------------------------
(***************************************************************************)
(* Model of chimera_vaisala/instruments/vaisala.py: the sentence parser    *)
(* (regex_header, regex_data, regex_eol), the record store self._data      *)
(* filled by update_data, the accessors reading it and dew_point.          *)
(*                                                                         *)
(* A Python str is a sequence of one-character strings.  A dict is a       *)
(* function whose domain is its set of keys.  A float is an exact rational *)
(* [n, d] in lowest terms, or NaN; rounding is abstracted.                 *)
(***************************************************************************)
EXTENDS Integers, Sequences, FiniteSets, TLC

(***************************************************************************)
(* Characters                                                              *)
(***************************************************************************)
CR == "\r"
LF == "\n"
Digit == {"0", "1", "2", "3", "4", "5", "6", "7", "8", "9"}
Upper == {"A", "B", "C", "D", "E", "F", "G", "H", "I", "J", "K", "L", "M",
          "N", "O", "P", "Q", "R", "S", "T", "U", "V", "W", "X", "Y", "Z"}
Lower == {"a", "b", "c", "d", "e", "f", "g", "h", "i", "j", "k", "l", "m",
          "n", "o", "p", "q", "r", "s", "t", "u", "v", "w", "x", "y", "z"}

\* s[i:] of Python, i counted from 1
From(s, i) == SubSeq(s, i, Len(s))

\* s[:-1] of Python ('' stays '')
DropLast(s) == SubSeq(s, 1, Len(s) - 1)

\* length of the longest run of characters of S starting at position i
RECURSIVE RunLen(_, _, _)
RunLen(s, i, S) ==
    IF i > Len(s) \/ s[i] \notin S THEN 0 ELSE 1 + RunLen(s, i + 1, S)

\* '$' of a regex without re.MULTILINE, tested before position i: the end of
\* the string, or just before a newline that ends the string
AtDollar(s, i) == i = Len(s) + 1 \/ (i = Len(s) /\ s[i] = LF)

(***************************************************************************)
(* Exceptions and return values                                            *)
(***************************************************************************)
Raise(exc, arg) == [kind |-> "raise", exc |-> exc, arg |-> arg]

IsRaise(r) == "kind" \in DOMAIN r /\ r.kind = "raise"

NoneValue == [kind |-> "None"]

(***************************************************************************)
(* regex_header = '(?P<id_station>[0-9]+)(T|R)+(?P<id_msg>.+?),'           *)
(***************************************************************************)
\* '.+?,' from position p: the least k >= 1 such that k characters other
\* than a newline are followed by a comma; 0 when there is none
RECURSIVE LazyFrom(_, _, _)
LazyFrom(s, p, k) ==
    IF p + k > Len(s) \/ s[p + k - 1] = LF THEN 0
    ELSE IF s[p + k] = "," THEN k ELSE LazyFrom(s, p, k + 1)

LazyToComma(s, p) == LazyFrom(s, p, 1)

\* the matches of regex_header that start at position i, as <<d, t, k>>:
\* d digits, t framing letters, k characters of id_msg
HeaderMatchesAt(s, i) ==
    {m \in UNION {{<<d, t, LazyToComma(s, i + d + t)>> :
                      t \in 1..RunLen(s, i + d, {"T", "R"})} :
                  d \in 1..RunLen(s, i, Digit)} : m[3] > 0}

\* the match the backtracking engine finds first at i: both greedy runs as
\* long as possible, the digits first
HeaderFirstAt(s, i) ==
    CHOOSE m \in HeaderMatchesAt(s, i) :
        \A m2 \in HeaderMatchesAt(s, i) :
            m[1] > m2[1] \/ (m[1] = m2[1] /\ m[2] >= m2[2])

regex_header(s) ==
    LET starts == {i \in 1..Len(s) : HeaderMatchesAt(s, i) # {}}
    IN  IF starts = {} THEN <<>>
        ELSE LET i == CHOOSE i \in starts : \A i2 \in starts : i <= i2
                 m == HeaderFirstAt(s, i)
             IN  <<[id_station |-> SubSeq(s, i, i + m[1] - 1),
                    id_msg |-> SubSeq(s, i + m[1] + m[2],
                                      i + m[1] + m[2] + m[3] - 1)]>>

\* [m.groupdict() for m in regex_header.finditer(line)][0]
get_header(line) ==
    IF regex_header(line) = <<>>
    THEN Raise("IndexError", <<>>)
    ELSE regex_header(line)[1]

(***************************************************************************)
(* regex_data = '(?P<type>[A-Z][a-z])=+(?P<value>.+?(,|$))'                *)
(* regex_eol  = '(,|\r)$'                                                  *)
(***************************************************************************)
\* '.+?(,|$)' from position p: the length of the group 'value', the comma
\* included; 0 when there is no match.  For each k >= 1 in turn the comma is
\* tried before '$'.
RECURSIVE LazyValueFrom(_, _, _)
LazyValueFrom(s, p, k) ==
    IF p + k - 1 > Len(s) \/ s[p + k - 1] = LF THEN 0
    ELSE IF p + k <= Len(s) /\ s[p + k] = "," THEN k + 1
    ELSE IF AtDollar(s, p + k) THEN k
    ELSE LazyValueFrom(s, p, k + 1)

LazyValue(s, p) == LazyValueFrom(s, p, 1)

\* the match of regex_data that starts at position i, as <<e, v>>: e equals
\* signs (greedy, given back one at a time) and v characters of 'value';
\* <<0, 0>> when there is none
DataMatchAt(s, i) ==
    IF ~(i + 2 <= Len(s) /\ s[i] \in Upper /\ s[i + 1] \in Lower)
    THEN <<0, 0>>
    ELSE LET es == {e \in 1..RunLen(s, i + 2, {"="}) :
                       LazyValue(s, i + 2 + e) > 0}
         IN  IF es = {} THEN <<0, 0>>
             ELSE LET e == CHOOSE e \in es : \A e2 \in es : e >= e2
                  IN  <<e, LazyValue(s, i + 2 + e)>>

\* regex_data.findall(line) from position i on: the (type, value) pairs of
\* the successive non-overlapping matches
RECURSIVE regex_data_findall(_, _)
regex_data_findall(s, i) ==
    IF i > Len(s) THEN <<>>
    ELSE LET m == DataMatchAt(s, i)
         IN  IF m = <<0, 0>> THEN regex_data_findall(s, i + 1)
             ELSE <<<<SubSeq(s, i, i + 1),
                      SubSeq(s, i + 2 + m[1], i + 1 + m[1] + m[2])>>>>
                  \o regex_data_findall(s, i + 2 + m[1] + m[2])

\* regex_eol.sub left out: the value keeps its terminator
regex_eol_sub_kept(v) == v

\* regex_eol.sub('', v)
regex_eol_sub(v) ==
    IF Len(v) >= 1 /\ v[Len(v)] \in {",", CR}
    THEN DropLast(v)
    ELSE IF Len(v) >= 2 /\ v[Len(v)] = LF /\ v[Len(v) - 1] \in {",", CR}
         THEN SubSeq(v, 1, Len(v) - 2) \o <<LF>>
         ELSE v

\* {m[0]: regex_eol.sub('', m[1]) for m in regex_data.findall(line)}:
\* a later pair with the same key replaces an earlier one
get_data(line) ==
    LET ms == regex_data_findall(line, 1)
        last(c) == CHOOSE j \in 1..Len(ms) :
                       /\ ms[j][1] = c
                       /\ \A j2 \in 1..Len(ms) : ms[j2][1] = c => j2 <= j
    IN  [c \in {ms[j][1] : j \in 1..Len(ms)} |-> regex_eol_sub(ms[last(c)][2])]


(***************************************************************************)
(* Numbers: int() and float() of Python, exact rationals                   *)
(***************************************************************************)
RECURSIVE Gcd(_, _)
Gcd(a, b) == IF b = 0 THEN a ELSE Gcd(b, a % b)

Abs(x) == IF x < 0 THEN -x ELSE x

\* the rational n/d (d > 0) in lowest terms
Rat(n, d) == LET g == Gcd(Abs(n), d) IN [n |-> n \div g, d |-> d \div g]

RatAdd(x, y) == Rat(x.n * y.d + y.n * x.d, x.d * y.d)

RatMul(x, y) == Rat(x.n * y.n, x.d * y.d)

\* x / y for y # 0
RatDiv(x, y) ==
    IF y.n > 0 THEN Rat(x.n * y.d, x.d * y.n) ELSE Rat(-(x.n * y.d), x.d * (-y.n))

\* float('nan'), and what numpy yields for log(0)/... below
NaN == [nan |-> TRUE]

IsRat(v) == DOMAIN v = {"n", "d"}

RECURSIVE Pow10(_)
Pow10(k) == IF k = 0 THEN 1 ELSE 10 * Pow10(k - 1)

DigitValue(c) ==
    CASE c = "0" -> 0 [] c = "1" -> 1 [] c = "2" -> 2 [] c = "3" -> 3
      [] c = "4" -> 4 [] c = "5" -> 5 [] c = "6" -> 6 [] c = "7" -> 7
      [] c = "8" -> 8 [] c = "9" -> 9

\* the value of a string of decimal digits ('' counts 0)
RECURSIVE DecimalValue(_)
DecimalValue(ds) ==
    IF ds = <<>> THEN 0
    ELSE 10 * DecimalValue(DropLast(ds)) + DigitValue(ds[Len(ds)])

\* int(header['id_station']): the group is [0-9]+, so int() never raises
int(ds) == DecimalValue(ds)

Whitespace == {" ", "\t", CR, LF}

\* length of the longest run of characters of S that ends the string
RECURSIVE TrailLen(_, _)
TrailLen(s, S) ==
    IF s = <<>> \/ s[Len(s)] \notin S THEN 0 ELSE 1 + TrailLen(DropLast(s), S)

\* s.strip()
Strip(s) ==
    LET a == RunLen(s, 1, Whitespace)
        t == From(s, a + 1)
    IN  SubSeq(t, 1, Len(t) - TrailLen(t, Whitespace))

\* float(s) for the decimal notation: surrounding whitespace, a sign, digits
\* with at most one point and at least one digit.  Anything else raises
\* ValueError (exponents, 'inf' and 'nan' are outside the alphabet of the
\* lines of this model).
float(s) ==
    LET t == Strip(s)
        signed == t # <<>> /\ t[1] \in {"+", "-"}
        u == IF signed THEN From(t, 2) ELSE t
        ip == RunLen(u, 1, Digit)
        point == ip < Len(u) /\ u[ip + 1] = "."
        fp == IF point THEN RunLen(u, ip + 2, Digit) ELSE 0
        used == ip + (IF point THEN 1 + fp ELSE 0)
        mag == Rat(DecimalValue(SubSeq(u, 1, ip)) * Pow10(fp)
                     + DecimalValue(SubSeq(u, ip + 2, ip + 1 + fp)),
                   Pow10(fp))
    IN  IF used = Len(u) /\ ip + fp >= 1
        THEN IF signed /\ t[1] = "-" THEN Rat(-mag.n, mag.d) ELSE mag
        ELSE Raise("ValueError", s)

(***************************************************************************)
(* Units                                                                   *)
(***************************************************************************)
deg == "deg"
m_s == "m / s"
km_s == "km / s"
mi_h == "mi / h"
knot == "kn"
Pa == "Pa"
hPa == "100 Pa"
bar == "bar"
mmHg == "mmHg"
inHg == "25.399999705 mmHg"
pct == "%"
Celsius == "deg_C"
Fahrenheit == "deg_F"

\* vaisala_unit_dict: quantity -> suffix character -> unit
vaisala_unit_dict ==
    [Pa |-> ("H" :> hPa) @@ ("P" :> Pa) @@ ("B" :> bar) @@ ("M" :> mmHg)
              @@ ("I" :> inHg),
     Sx |-> ("M" :> m_s) @@ ("K" :> km_s) @@ ("S" :> mi_h) @@ ("N" :> knot)]

\* the units each accessor accepts (the class attributes of the weather
\* station interfaces)
accepted_direction_unit == {deg}
accepted_speed_units == {m_s, km_s, mi_h, knot}
accepted_pressures_unit == {Pa, bar, mmHg}
accepted_humidity_units == {pct}
accepted_temperature_units == {Celsius, Fahrenheit}

\* the physical dimension of a unit
Dimension(u) ==
    CASE u = deg -> "angle"
      [] u \in {m_s, km_s, mi_h, knot} -> "speed"
      [] u \in {Pa, hPa, bar, mmHg, inHg} -> "pressure"
      [] u = pct -> "fraction"
      [] u \in {Celsius, Fahrenheit} -> "temperature"

\* one unit in the SI unit of its dimension; temperatures are affine and
\* handled apart.  mmHg is 133.322387415 Pa, cut to three decimals to stay
\* within the model checker's integers.
Factor(u) ==
    CASE u = deg -> Rat(1, 1)
      [] u = m_s -> Rat(1, 1)
      [] u = km_s -> Rat(1000, 1)
      [] u = mi_h -> Rat(1397, 3125)
      [] u = knot -> Rat(463, 900)
      [] u = Pa -> Rat(1, 1)
      [] u = hPa -> Rat(100, 1)
      [] u = bar -> Rat(100000, 1)
      [] u = mmHg -> Rat(133322, 1000)
      [] u = inHg -> Rat(338638, 100)
      [] u = pct -> Rat(1, 100)

\* a temperature in Celsius
ToCelsius(v, u) ==
    IF u = Celsius THEN v ELSE RatMul(RatAdd(v, Rat(-32, 1)), Rat(5, 9))

FromCelsius(v, u) ==
    IF u = Celsius THEN v ELSE RatAdd(RatMul(v, Rat(9, 5)), Rat(32, 1))

\* WeatherBase._convert_units(value, unit_in, unit_out, equivalencies): the
\* value itself when the two units are equal, else the value converted
\* (NaN stays NaN, a term is marked with its new unit)
convert_units(value, unit_in, unit_out, equivalencies) ==
    IF IsRaise(value) THEN value
    ELSE IF unit_in = unit_out THEN value
    ELSE IF Dimension(unit_in) # Dimension(unit_out)
         THEN Raise("UnitConversionError", <<unit_in, unit_out>>)
         ELSE IF value = NaN THEN NaN
              ELSE IF ~IsRat(value) THEN [value EXCEPT !.unit = unit_out]
              ELSE IF Dimension(unit_in) = "temperature"
                   THEN FromCelsius(ToCelsius(value, unit_in), unit_out)
                   ELSE RatDiv(RatMul(value, Factor(unit_in)), Factor(unit_out))

\* WSValue(time, value, unit), or the exception the conversion raised
WSValue(time, value, unit) ==
    IF IsRaise(value) THEN value
    ELSE [kind |-> "WSValue", time |-> time, value |-> value, unit |-> unit]

(***************************************************************************)
(* The record store self._data and the accessors                           *)
(***************************************************************************)
\* __config__['id_station']
id_station == 0

K1 == <<"1">>
K2 == <<"2">>
Dm == <<"D", "m">>
Sm == <<"S", "m">>
PaKey == <<"P", "a">>
Ua == <<"U", "a">>
Ta == <<"T", "a">>
obs_time == <<"o", "b", "s", "_", "t", "i", "m", "e">>

\* the station filter left out
station_matches_unfiltered(header) == TRUE

\* int(header['id_station']) == self["id_station"]
station_matches(header) == int(header.id_station) = id_station

\* self._data[id_msg].update(data): the fields of the old record are kept
assign_data_merged(data, id_msg, fields) ==
    [m \in DOMAIN data \cup {id_msg} |->
        IF m # id_msg THEN data[m]
        ELSE IF m \in DOMAIN data
             THEN [k \in DOMAIN fields \cup DOMAIN data[m] |->
                      IF k \in DOMAIN fields THEN fields[k] ELSE data[m][k]]
             ELSE fields]

\* update_data, line 70, once the station matched:
\* self._data[header['id_msg']] = data, a new dict in place of the old one
assign_data(data, id_msg, fields) ==
    [m \in DOMAIN data \cup {id_msg} |-> IF m = id_msg THEN fields ELSE data[m]]

\* update_data, lines 65-70, given the header parsed on line 65
store_header(data, line, header) ==
    IF IsRaise(header) \/ ~station_matches(header) THEN data
    ELSE assign_data(data, header.id_msg, get_data(line))

store_data(data, line) == store_header(data, line, get_header(line))

\* update_data, line 71: self._data[header['id_msg']]['obs_time'] = utcnow()
stamp_time(data, id_msg, t) ==
    [data EXCEPT ![id_msg] =
        [k \in DOMAIN data[id_msg] \cup {obs_time} |->
            IF k = obs_time THEN t ELSE data[id_msg][k]]]

\* the header when line 67 lets the line through, else <<>>
accepted_header(header) ==
    IF IsRaise(header) \/ ~station_matches(header) THEN <<>> ELSE <<header>>

\* what update_data(line) returns or raises, given the header
result_of(header) == IF IsRaise(header) THEN header ELSE NoneValue

update_result(line) == result_of(get_header(line))

\* the store after lines 70 and 71, given the accepted header
store_and_stamp(data, line, hs, t) ==
    IF hs = <<>> THEN data
    ELSE stamp_time(assign_data(data, hs[1].id_msg, get_data(line)),
                    hs[1].id_msg, t)

\* the store after update_data(line) at time t
update_store(data, line, t) ==
    store_and_stamp(data, line, accepted_header(get_header(line)), t)

\* self._data[msg][code], as [ok, v]: the string, or the KeyError of the
\* first key that is missing
Field(data, msg, code) ==
    IF msg \notin DOMAIN data THEN [ok |-> FALSE, v |-> Raise("KeyError", msg)]
    ELSE IF code \notin DOMAIN data[msg]
         THEN [ok |-> FALSE, v |-> Raise("KeyError", code)]
         ELSE [ok |-> TRUE, v |-> data[msg][code]]

\* the locals value and unit of an accessor
Locals(value, unit) == [kind |-> "locals", value |-> value, unit |-> unit]

\* the locals once float() returned, or the ValueError it raised
LocalsOf(value, unit) == IF IsRaise(value) THEN value ELSE Locals(value, unit)

\* table[raw[-1]] once float(raw[:-1]) returned: ValueError comes before the
\* KeyError of the suffix (float('') raises, so raw[-1] is never taken of an
\* empty string)
SuffixLookup(value, raw, table) ==
    IF IsRaise(value) THEN value
    ELSE IF raw[Len(raw)] \notin DOMAIN table
         THEN Raise("KeyError", <<raw[Len(raw)]>>)
         ELSE Locals(value, table[raw[Len(raw)]])

\* float(raw[:-1]), table[raw[-1]]
ValueAndUnit(raw, table) == SuffixLookup(float(DropLast(raw)), raw, table)

\* float(f) of the whole field, the suffix included
FixedUnit_whole(f, unit) == IF ~f.ok THEN f.v ELSE LocalsOf(float(f.v), unit)

\* float(f[:-1]) of a field whose unit does not depend on a table
FixedUnit(f, unit) ==
    IF ~f.ok THEN f.v ELSE LocalsOf(float(DropLast(f.v)), unit)

\* float(f[:-1]), table[f[-1]] of a field
TableUnit(f, table) == IF ~f.ok THEN f.v ELSE ValueAndUnit(f.v, table)

\* the accessors, each in the two statements it is made of: the first reads
\* the field and yields the locals or raises, the second reads obs_time,
\* converts and returns

\* wind_direction with the unit validated after the field is read
wind_direction_read_late_check(data, unit_out) ==
    IF ~Field(data, K1, Dm).ok THEN Field(data, K1, Dm).v
    ELSE IF unit_out \notin accepted_direction_unit
         THEN Raise("OptionConversionException", <<unit_out>>)
         ELSE FixedUnit(Field(data, K1, Dm), deg)

\* wind_direction, lines 81-84
wind_direction_read(data, unit_out) ==
    IF unit_out \notin accepted_direction_unit
    THEN Raise("OptionConversionException", <<unit_out>>)
    ELSE FixedUnit(Field(data, K1, Dm), deg)

\* wind_speed, lines 90-93
wind_speed_read(data, unit_out) ==
    IF unit_out \notin accepted_speed_units
    THEN Raise("OptionConversionException", <<unit_out>>)
    ELSE TableUnit(Field(data, K1, Sm), vaisala_unit_dict.Sx)

\* pressure reading the record of the wind message
pressure_read_wind_record(data, unit_out) ==
    IF unit_out \notin accepted_pressures_unit
    THEN Raise("OptionConversionException", <<unit_out>>)
    ELSE TableUnit(Field(data, K1, PaKey), vaisala_unit_dict.Pa)

\* pressure, lines 99-102
pressure_read(data, unit_out) ==
    IF unit_out \notin accepted_pressures_unit
    THEN Raise("OptionConversionException", <<unit_out>>)
    ELSE TableUnit(Field(data, K2, PaKey), vaisala_unit_dict.Pa)

\* humidity, lines 107-110: the suffix is read and not used, the source unit
\* is percent
humidity_read(data, unit_out) ==
    IF unit_out \notin accepted_humidity_units
    THEN Raise("OptionConversionException", <<unit_out>>)
    ELSE FixedUnit(Field(data, K2, Ua), pct)

\* the source unit of a temperature, line 121: Celsius for the suffix 'C',
\* Fahrenheit for any other
TemperatureUnit(f) ==
    IF f.ok /\ f.v # <<>> /\ f.v[Len(f.v)] = "C" THEN Celsius ELSE Fahrenheit

\* temperature, lines 115-118
temperature_suffix(f) == FixedUnit(f, TemperatureUnit(f))

temperature_read(data, unit_out) ==
    IF unit_out \notin accepted_temperature_units
    THEN Raise("OptionConversionException", <<unit_out>>)
    ELSE temperature_suffix(Field(data, K2, Ta))

\* self._data[msg]['obs_time'], as [ok, v]
ObsTime(data, msg) == Field(data, msg, obs_time)

\* WSValue(t, self._convert_units(value, unit, target, equivalencies), unit_out)
\* with t the obs_time read first
Stamped(t, l, target, equivalencies, unit_out) ==
    IF ~t.ok THEN t.v
    ELSE WSValue(t.v, convert_units(l.value, l.unit, target, equivalencies),
                 unit_out)

\* the return statement of wind_direction, wind_speed, pressure and
\* humidity: WSValue(self._data[msg]['obs_time'],
\*                   self._convert_units(value, unit, unit_out), unit_out)
accessor_return(data, msg, l, unit_out) ==
    Stamped(ObsTime(data, msg), l, unit_out, "None", unit_out)

\* the return statement of temperature, lines 120-122: the third argument of
\* _convert_units is units.Celsius and unit_out is passed as the fourth
temperature_return(data, l, unit_out) ==
    Stamped(ObsTime(data, K2), l, Celsius, unit_out, unit_out)

\* the second statement runs when the first did not raise
Return(l, data, msg, unit_out) ==
    IF IsRaise(l) THEN l ELSE accessor_return(data, msg, l, unit_out)

wind_direction(data, unit_out) ==
    Return(wind_direction_read(data, unit_out), data, K1, unit_out)

wind_speed(data, unit_out) ==
    Return(wind_speed_read(data, unit_out), data, K1, unit_out)

pressure(data, unit_out) ==
    Return(pressure_read(data, unit_out), data, K2, unit_out)

humidity(data, unit_out) ==
    Return(humidity_read(data, unit_out), data, K2, unit_out)

TemperatureReturn(l, data, unit_out) ==
    IF IsRaise(l) THEN l ELSE temperature_return(data, l, unit_out)

temperature(data, unit_out) ==
    TemperatureReturn(temperature_read(data, unit_out), data, unit_out)

\* Tdp(T, RH) of dew_point, lines 132-137, with c = 257.14.  T / (c + T)
\* divides by zero at T = -c.  RH <= 0 makes np.log yield -inf or nan with a
\* warning and no exception, and the quotient of line 137 is then nan.
\* Otherwise the result is a finite number, kept as the term Tdp(T, RH).
Tdp(T, RH) ==
    IF T = [n |-> -12857, d |-> 50] THEN Raise("ZeroDivisionError", <<>>)
    ELSE IF RH.n <= 0 THEN NaN
         ELSE [sym |-> "Tdp", T |-> T, RH |-> RH, unit |-> Celsius]

\* WSValue(t, self._convert_units(Tdp(T.value, RH.value), units.Celsius,
\*                               unit_out), unit_out), lines 139-142, with
\* the arguments evaluated from left to right
DewPointOf(t, T, RH, unit_out) ==
    IF ~t.ok THEN t.v
    ELSE IF IsRaise(T) THEN T
    ELSE IF IsRaise(RH) THEN RH
    ELSE WSValue(t.v, convert_units(Tdp(T.value, RH.value), Celsius, unit_out,
                                    "None"),
                 unit_out)

\* dew_point: unit_out is not validated
dew_point(data, unit_out) ==
    DewPointOf(ObsTime(data, K2), temperature(data, Celsius),
               humidity(data, pct), unit_out)

(***************************************************************************)
(* The sentences the station sends                                         *)
(***************************************************************************)
\* code=value,code=value,...
RECURSIVE JoinFields(_)
JoinFields(fs) ==
    IF fs = <<>> THEN <<>>
    ELSE fs[1][1] \o <<"=">> \o fs[1][2]
         \o (IF Len(fs) = 1 THEN <<>> ELSE <<",">> \o JoinFields(Tail(fs)))

\* the line of a sentence: the header, the fields and the terminator
Render(s) ==
    s.station \o s.framing \o s.msg \o <<",">> \o JoinFields(s.fields) \o s.term

Sentence(station, framing, msg, fields, term) ==
    [station |-> station, framing |-> framing, msg |-> msg,
     fields |-> fields, term |-> term]

NoSentence == Sentence(<<>>, <<>>, <<>>, <<>>, <<>>)

\* the sentences of the behaviours of Spec: wind and PTU messages of this
\* station and of another one, with well-formed and ill-formed values
ExampleSentence ==
    Sentence(<<"0">>, <<"R">>, <<"0">>,
             <<<<Dm, <<"0", "4", "5", "#">>>>, <<Sm, <<"1", ".", "2", "M", "#">>>>>>,
             <<",", CR>>)
WindSentence ==
    Sentence(<<"0">>, <<"R">>, K1,
             <<<<Dm, <<"0", "4", "5", "D">>>>, <<Sm, <<"1", ".", "2", "M">>>>>>,
             <<",", CR>>)
BadSuffixWind ==
    Sentence(<<"0">>, <<"R">>, K1, <<<<Sm, <<"1", ".", "2", "1">>>>>>, <<CR, LF>>)
MalformedWind ==
    Sentence(<<"0">>, <<"R">>, K1,
             <<<<Dm, <<"2", "7", "0", "D">>>>, <<Sm, <<"1", ".", ".", "2", "M">>>>>>,
             <<CR, LF>>)
OtherStationWind ==
    Sentence(<<"5">>, <<"R">>, K1,
             <<<<Dm, <<"0", "9", "0", "D">>>>, <<Sm, <<"3", ".", "0", "M">>>>>>,
             <<",", CR>>)
PTUSentence ==
    Sentence(<<"0", "0">>, <<"R">>, K2,
             <<<<PaKey, <<"1", "0", "1", "3", ".", "2", "H">>>>,
               <<Ua, <<"5", "0", ".", "0", "P">>>>,
               <<Ta, <<"2", "5", ".", "0", "C">>>>>>,
             <<CR, LF>>)
DryPTU ==
    Sentence(<<"0">>, <<"R">>, K2,
             <<<<Ta, <<"2", "5", ".", "0", "C">>>>,
               <<Ua, <<"0", ".", "0", "P">>>>,
               <<PaKey, <<"#", "H">>>>>>,
             <<",", CR>>)
BadSuffixPTU ==
    Sentence(<<"0">>, <<"T", "R">>, K2,
             <<<<PaKey, <<"1", "0", "1", "3", ".", "2", "2">>>>,
               <<Ta, <<"7", "7", ".", "0", "F">>>>>>,
             <<CR, LF>>)
Sentences ==
    {ExampleSentence, WindSentence, BadSuffixWind, MalformedWind,
     OtherStationWind, PTUSentence, DryPTU, BadSuffixPTU}

\* the sentences a parser run is given: every header, up to MaxFields
\* fields with distinct codes and values that are not empty and hold no
\* comma, and every line ending
MaxFields == 2

FieldCodes == {Dm, Sm, Ta}

FieldValues == {<<"0", "4", "5", "D">>, <<"1", ".", "2", "M", "#">>, <<"7", CR, "C">>}

Terminators == {<<>>, <<",">>, <<CR>>, <<",", CR>>, <<CR, LF>>, <<",", CR, LF>>}

DistinctCodes(fs) == \A i, j \in 1..Len(fs) : fs[i][1] = fs[j][1] => i = j

FieldLists ==
    UNION {{fs \in [1..n -> FieldCodes \X FieldValues] : DistinctCodes(fs)} :
              n \in 0..MaxFields}

ValidSentences ==
    {Sentence(st, fr, m, fs, tm) :
        st \in {<<"0">>, <<"0", "0">>, <<"5">>}, fr \in {<<"R">>, <<"T", "R">>},
        m \in {K1, K2}, fs \in FieldLists, tm \in Terminators}

\* lines without a header
NoiseLines == {<<CR, LF>>}

\* the units the accessors are called with
UnitsOut == {deg, m_s, Pa, pct, Celsius, Fahrenheit}

\* the clock stops at MaxTime
MaxTime == 1

(***************************************************************************)
(* State                                                                   *)
(***************************************************************************)
VARIABLES
    _data,   \* self._data: message id -> (field code -> string, obs_time -> time)
    now,     \* what datetime.utcnow() returns
    ret,     \* the last call completed: [op, arg, out]
    wire,    \* the sentence a parser run is given
    latest,  \* history: message id -> [line, at] of the last sentence accepted
    upd,     \* the polling thread inside update_data
    acc      \* the calling thread inside an accessor

vars == <<_data, now, ret, wire, latest, upd, acc>>

Call(op, arg, out) == [op |-> op, arg |-> arg, out |-> out]

Init ==
    /\ _data = <<>>
    /\ now = 0
    /\ ret = Call("__init__", <<>>, NoneValue)
    /\ wire = NoSentence
    /\ latest = <<>>
    /\ upd = [pc |-> "idle"]
    /\ acc = [pc |-> "idle"]

\* time passes
Tick ==
    /\ now < MaxTime
    /\ now' = now + 1
    /\ UNCHANGED <<_data, ret, wire, latest, upd, acc>>

\* the history once a line with header hs was received
Record(line, hs) ==
    IF hs # <<>> /\ DecimalValue(hs[1].id_station) = id_station
    THEN [m \in DOMAIN latest \cup {hs[1].id_msg} |->
             IF m = hs[1].id_msg THEN [line |-> line, at |-> now] ELSE latest[m]]
    ELSE latest

\* update_data(line), run as a whole
update_data(line) ==
    /\ upd.pc = "idle"
    /\ _data' = update_store(_data, line, now)
    /\ ret' = Call("update_data", line, update_result(line))
    /\ latest' = Record(line, regex_header(line))
    /\ UNCHANGED <<now, wire, upd, acc>>

\* the station sends a sentence and control hands its line to update_data
ReceiveSentence == \E s \in Sentences : update_data(Render(s))

ReceiveNoise == \E l \in NoiseLines : update_data(l)

Returns(op, unit_out, out) ==
    /\ acc.pc = "idle"
    /\ ret' = Call(op, <<unit_out>>, out)
    /\ UNCHANGED <<_data, now, wire, latest, upd, acc>>

WindDirection == \E u \in UnitsOut : Returns("wind_direction", u, wind_direction(_data, u))

WindSpeed == \E u \in UnitsOut : Returns("wind_speed", u, wind_speed(_data, u))

Pressure == \E u \in UnitsOut : Returns("pressure", u, pressure(_data, u))

Humidity == \E u \in UnitsOut : Returns("humidity", u, humidity(_data, u))

Temperature == \E u \in UnitsOut : Returns("temperature", u, temperature(_data, u))

DewPoint == \E u \in {Celsius, Fahrenheit} : Returns("dew_point", u, dew_point(_data, u))

Next ==
    \/ Tick
    \/ ReceiveSentence
    \/ ReceiveNoise
    \/ WindDirection
    \/ WindSpeed
    \/ Pressure
    \/ Humidity
    \/ Temperature
    \/ DewPoint

Spec == Init /\ [][Next]_vars

(***************************************************************************)
(* The parser alone: one sentence, drawn at the start, is received once    *)
(***************************************************************************)
InitParse ==
    /\ wire \in ValidSentences
    /\ _data = <<>>
    /\ now = 0
    /\ ret = Call("__init__", <<>>, NoneValue)
    /\ latest = <<>>
    /\ upd = [pc |-> "idle"]
    /\ acc = [pc |-> "idle"]

ReceiveWire == ret.op = "__init__" /\ update_data(Render(wire))

NextParse == ReceiveWire

SpecParse == InitParse /\ [][NextParse]_vars

(***************************************************************************)
(* Two threads: control calls update_data for the lines it read while      *)
(* another thread calls an accessor.  A step is a statement, and what an   *)
(* accessor returned or raised is kept in acc.                             *)
(***************************************************************************)
\* the sentences control reads in these behaviours
ThreadSentences == {WindSentence, MalformedWind, OtherStationWind, PTUSentence}

\* control, line 54, and update_data, lines 65-70
StoreStep(line, hs) ==
    /\ upd.pc = "idle"
    /\ _data' = store_data(_data, line)
    /\ upd' = IF hs = <<>> THEN [pc |-> "idle"]
              ELSE [pc |-> "line71", line |-> line, id_msg |-> hs[1].id_msg]
    /\ UNCHANGED <<now, ret, wire, latest, acc>>

ControlStore ==
    \E s \in ThreadSentences :
        StoreStep(Render(s), accepted_header(get_header(Render(s))))

\* update_data, line 71
ControlStamp ==
    /\ upd.pc = "line71"
    /\ _data' = stamp_time(_data, upd.id_msg, now)
    /\ upd' = [pc |-> "idle"]
    /\ latest' = Record(upd.line, regex_header(upd.line))
    /\ UNCHANGED <<now, ret, wire, acc>>

\* the first statement of an accessor
ReadOf(op, data, unit_out) ==
    CASE op = "wind_direction" -> wind_direction_read(data, unit_out)
      [] op = "wind_speed" -> wind_speed_read(data, unit_out)
      [] op = "pressure" -> pressure_read(data, unit_out)
      [] op = "humidity" -> humidity_read(data, unit_out)
      [] op = "temperature" -> temperature_read(data, unit_out)

\* the message id an accessor reads
MsgOf(op) == IF op \in {"wind_direction", "wind_speed"} THEN K1 ELSE K2

\* the second statement of an accessor
ReturnOf(op, data, l, unit_out) ==
    IF op = "temperature" THEN temperature_return(data, l, unit_out)
    ELSE accessor_return(data, MsgOf(op), l, unit_out)

Accessors == {"wind_direction", "wind_speed", "pressure", "humidity", "temperature"}

\* history: the record the first statement read, <<>> when there is none
Seen(data, msg) == IF msg \in DOMAIN data THEN data[msg] ELSE <<>>

ReadStep(op, unit_out, l) ==
    /\ acc.pc # "return"
    /\ acc' = IF IsRaise(l)
              THEN [pc |-> "returned", op |-> op, out |-> l,
                    seen |-> Seen(_data, MsgOf(op))]
              ELSE [pc |-> "return", op |-> op, unit_out |-> unit_out, l |-> l,
                    seen |-> Seen(_data, MsgOf(op))]
    /\ UNCHANGED <<_data, now, ret, wire, latest, upd>>

AccessorRead ==
    \E op \in Accessors, u \in UnitsOut : ReadStep(op, u, ReadOf(op, _data, u))

ReturnStep(out) ==
    /\ acc.pc = "return"
    /\ acc' = [pc |-> "returned", op |-> acc.op, out |-> out, seen |-> acc.seen]
    /\ UNCHANGED <<_data, now, ret, wire, latest, upd>>

AccessorReturn == ReturnStep(ReturnOf(acc.op, _data, acc.l, acc.unit_out))

NextThreads ==
    \/ Tick
    \/ ControlStore
    \/ ControlStamp
    \/ AccessorRead
    \/ AccessorReturn

SpecThreads == Init /\ [][NextThreads]_vars

(***************************************************************************)
(* Properties                                                              *)
(***************************************************************************)
AllUnits ==
    {deg, m_s, km_s, mi_h, knot, Pa, hPa, bar, mmHg, inHg, pct, Celsius, Fahrenheit}

AcceptedBy(op) ==
    CASE op = "wind_direction" -> accepted_direction_unit
      [] op = "wind_speed" -> accepted_speed_units
      [] op = "pressure" -> accepted_pressures_unit
      [] op = "humidity" -> accepted_humidity_units
      [] op = "temperature" -> accepted_temperature_units

\* the station id of a line whose header parses, as a number
StationOf(line) == DecimalValue(regex_header(line)[1].id_station)

\* C1: a step that is update_data on a line whose header parses and whose
\* station id is not the configured one raises nothing and leaves the whole
\* store as it was
C1_StationMismatchIgnored ==
    [][(/\ now' = now
        /\ ret'.op = "update_data"
        /\ regex_header(ret'.arg) # <<>>
        /\ StationOf(ret'.arg) # id_station)
       => (ret'.out = NoneValue /\ _data' = _data)]_vars

\* a wind sentence of station 5 was received last; the PTU record stored
\* before is there and no wind record is
C1_Witness ==
    /\ ret = Call("update_data", Render(OtherStationWind), NoneValue)
    /\ DOMAIN _data = {K2}

\* what update_data stores for a line at a time: the fields of the line and
\* obs_time
RecordOf(line, at) ==
    [k \in DOMAIN get_data(line) \cup {obs_time} |->
        IF k = obs_time THEN at ELSE get_data(line)[k]]

\* C2: the store holds, under each message id of which a sentence was
\* accepted and under no other, exactly the fields of the last such sentence
\* and the time of that update
C2_LatestRecordOnly ==
    /\ DOMAIN _data = DOMAIN latest
    /\ \A m \in DOMAIN latest : _data[m] = RecordOf(latest[m].line, latest[m].at)

\* the wind record was replaced at time 1 by a sentence without Dm, the PTU
\* record of time 0 is as it was
C2_Witness ==
    /\ DOMAIN _data = {K1, K2}
    /\ DOMAIN _data[K1] = {Sm, obs_time}
    /\ _data[K1][obs_time] = 1
    /\ _data[K2][obs_time] = 0
    /\ ret.op = "update_data"

\* C3: after update_data on the line of a valid sentence of the configured
\* station, the record under the sentence's message id has one field per
\* token of the sentence, under its code and with its value, and no other
\* field than these and obs_time
C3_FieldsRoundTrip ==
    (/\ ret.op = "update_data"
     /\ ret.arg = Render(wire)
     /\ DecimalValue(wire.station) = id_station)
    => /\ wire.msg \in DOMAIN _data
       /\ DOMAIN _data[wire.msg]
            = {wire.fields[i][1] : i \in 1..Len(wire.fields)} \cup {obs_time}
       /\ \A i \in 1..Len(wire.fields) :
              _data[wire.msg][wire.fields[i][1]] = wire.fields[i][2]

\* a sentence of two fields that ends in CR LF was received and stored
C3_Witness ==
    /\ ret.op = "update_data"
    /\ ret.arg = Render(wire)
    /\ Len(wire.fields) = 2
    /\ wire.term = <<CR, LF>>
    /\ wire.station = <<"0", "0">>
    /\ wire.msg \in DOMAIN _data

\* C4: whatever the store holds, each accessor called with a unit it does
\* not accept raises OptionConversionException
C4_UnsupportedUnitRejected ==
    /\ \A u \in AllUnits \ accepted_direction_unit :
           wind_direction(_data, u) = Raise("OptionConversionException", <<u>>)
    /\ \A u \in AllUnits \ accepted_speed_units :
           wind_speed(_data, u) = Raise("OptionConversionException", <<u>>)
    /\ \A u \in AllUnits \ accepted_pressures_unit :
           pressure(_data, u) = Raise("OptionConversionException", <<u>>)
    /\ \A u \in AllUnits \ accepted_humidity_units :
           humidity(_data, u) = Raise("OptionConversionException", <<u>>)
    /\ \A u \in AllUnits \ accepted_temperature_units :
           temperature(_data, u) = Raise("OptionConversionException", <<u>>)
    /\ (ret.op \in Accessors /\ ret.arg[1] \notin AcceptedBy(ret.op))
       => ret.out = Raise("OptionConversionException", ret.arg)

\* pressure(unit_out=degree) was called on a store that holds a PTU record
C4_Witness ==
    /\ ret = Call("pressure", <<deg>>, Raise("OptionConversionException", <<deg>>))
    /\ K2 \in DOMAIN _data

\* C5: while no sentence with message id "1" was accepted the wind accessors
\* raise KeyError('1'), and while none with message id "2" was, pressure,
\* humidity and temperature raise KeyError('2'), whatever else is stored
C5_OwnMessageIdOnly ==
    /\ K1 \notin DOMAIN latest =>
          /\ \A u \in accepted_direction_unit :
                 wind_direction(_data, u) = Raise("KeyError", K1)
          /\ \A u \in accepted_speed_units :
                 wind_speed(_data, u) = Raise("KeyError", K1)
    /\ K2 \notin DOMAIN latest =>
          /\ \A u \in accepted_pressures_unit :
                 pressure(_data, u) = Raise("KeyError", K2)
          /\ \A u \in accepted_humidity_units :
                 humidity(_data, u) = Raise("KeyError", K2)
          /\ \A u \in accepted_temperature_units :
                 temperature(_data, u) = Raise("KeyError", K2)

\* pressure was called with an accepted unit while only a wind record is
\* stored
C5_Witness ==
    /\ DOMAIN latest = {K1}
    /\ ret = Call("pressure", <<Pa>>, Raise("KeyError", K2))

\* the only line accepted so far
OnlyLine(line) ==
    \E m \in DOMAIN latest : DOMAIN latest = {m} /\ latest[m].line = line

\* the time at which the only line accepted so far was accepted
OnlyAt == latest[CHOOSE m \in DOMAIN latest : TRUE].at

\* C6 as stated: once "0R0,Dm=045#,Sm=1.2M#,\r" is the only line accepted,
\* wind_direction(degree) returns 45.0 and wind_speed(m/s) returns 1.2, both
\* with the time of that update
C6_ExampleScenario ==
    OnlyLine(Render(ExampleSentence)) =>
        /\ wind_direction(_data, deg) = WSValue(OnlyAt, Rat(45, 1), deg)
        /\ wind_speed(_data, m_s) = WSValue(OnlyAt, Rat(6, 5), m_s)

\* C6 amended: that line is stored under message id "0" and both accessors
\* raise KeyError('1'); it is once "0R1,Dm=045D,Sm=1.2M,\r" is the only line
\* accepted that they return 45.0 and 1.2 with the time of that update
C6_ExampleAmended ==
    /\ OnlyLine(Render(ExampleSentence)) =>
          /\ _data = (<<"0">> :> ((Dm :> <<"0", "4", "5", "#">>)
                                   @@ (Sm :> <<"1", ".", "2", "M", "#">>)
                                   @@ (obs_time :> OnlyAt)))
          /\ wind_direction(_data, deg) = Raise("KeyError", K1)
          /\ wind_speed(_data, m_s) = Raise("KeyError", K1)
    /\ OnlyLine(Render(WindSentence)) =>
          /\ wind_direction(_data, deg) = WSValue(OnlyAt, Rat(45, 1), deg)
          /\ wind_speed(_data, m_s) = WSValue(OnlyAt, Rat(6, 5), m_s)

\* wind_direction(degree) was called after the example line, received at
\* time 1, was the only one accepted
C6_Witness ==
    /\ OnlyLine(Render(ExampleSentence))
    /\ OnlyAt = 1
    /\ ret = Call("wind_direction", <<deg>>, Raise("KeyError", K1))

\* C7: an accessor that returns a value returns the time of the very record
\* its magnitude was read from, a record that had its obs_time, and no
\* accessor fails for a record that has no obs_time yet
C7_ConsistentSnapshot ==
    acc.pc = "returned" =>
        /\ acc.out # Raise("KeyError", obs_time)
        /\ acc.out.kind = "WSValue" =>
              /\ obs_time \in DOMAIN acc.seen
              /\ acc.out.time = acc.seen[obs_time]

\* the source unit of the stored temperature
StoredTemperatureUnit ==
    IF _data[K2][Ta][Len(_data[K2][Ta])] = "C" THEN Celsius ELSE Fahrenheit

\* C8: temperature(unit_out) returns the numeric prefix of Ta converted
\* from its source unit to unit_out, tagged unit_out
C8_TemperatureInUnitOut ==
    \A u \in accepted_temperature_units :
        temperature(_data, u).kind = "WSValue" =>
            /\ temperature(_data, u).unit = u
            /\ temperature(_data, u).value
                 = convert_units(float(DropLast(_data[K2][Ta])),
                                 StoredTemperatureUnit, u, "None")

\* C9: with a humidity of 0 percent and a temperature stored, dew_point
\* raises
C9_DewPointDomainError ==
    (/\ humidity(_data, pct).kind = "WSValue"
     /\ humidity(_data, pct).value = Rat(0, 1)
     /\ temperature(_data, Celsius).kind = "WSValue")
    => \A u \in {Celsius, Fahrenheit} : IsRaise(dew_point(_data, u))

\* why an accessor that reads msg, code and table fails on a store
Cause(data, msg, code, table) ==
    IF msg \notin DOMAIN data THEN "RecordNotAvailable"
    ELSE IF code \notin DOMAIN data[msg] THEN "FieldMissing"
    ELSE IF IsRaise(float(DropLast(data[msg][code]))) THEN "MalformedValue"
    ELSE IF data[msg][code][Len(data[msg][code])] \notin DOMAIN table
         THEN "UnknownUnitSuffix"
         ELSE "none"

ErrorKinds == {"RecordNotAvailable", "MalformedValue", "UnknownUnitSuffix"}

\* the empty store and the stores that hold one sentence
ReferenceStores ==
    {<<>>} \cup {update_store(<<>>, Render(s), 0) : s \in Sentences}

\* the message id, field and suffix table behind wind_speed and pressure
ReadBy(op) ==
    IF op = "wind_speed"
    THEN [msg |-> K1, code |-> Sm, table |-> vaisala_unit_dict.Sx]
    ELSE [msg |-> K2, code |-> PaKey, table |-> vaisala_unit_dict.Pa]

CauseOf(op, data) == Cause(data, ReadBy(op).msg, ReadBy(op).code, ReadBy(op).table)

\* C10: what a call of wind_speed or pressure with an accepted unit raised
\* for a missing record, an unknown suffix or a malformed value differs from
\* what the same accessor raises for another of these kinds of failure and
\* for an unsupported unit
C10_ErrorsDistinguishable ==
    (/\ ret.op \in {"wind_speed", "pressure"}
     /\ ret.arg[1] \in AcceptedBy(ret.op)
     /\ CauseOf(ret.op, _data) \in ErrorKinds)
    => /\ \A ref \in ReferenceStores :
              (/\ CauseOf(ret.op, ref) \in ErrorKinds
               /\ CauseOf(ret.op, ref) # CauseOf(ret.op, _data))
              => ret.out # ReadOf(ret.op, ref, ret.arg[1])
       /\ \A u \in AllUnits \ AcceptedBy(ret.op) :
              ret.out # ReadOf(ret.op, _data, u)

=============================================================================
